---- MODULE Spec2Model ----
(***************************************************************************)
(* Model of the NiceEnum derive (src/src/lib.rs).                          *)
(*                                                                         *)
(* nice_enum_impl is a pure function from a parsed item (DeriveInput) to a *)
(* token stream: a payload-free "kind" enum and an impl block with kind(), *)
(* one is_* predicate per variant and, for variants with a single unnamed  *)
(* field, as_*, as_*_mut and into_* accessors.  The token stream is        *)
(* modelled as a structured value (items, signatures, match arms), and the *)
(* emitted method bodies are given the meaning Rust gives them, so that    *)
(* statements about calling the generated methods on an instance of the    *)
(* source enum can be checked.                                             *)
(*                                                                         *)
(* Identifiers and method names are sequences of one-character strings, so *)
(* that the snake_case conversion is computed, not assumed.                *)
(***************************************************************************)
EXTENDS Integers, Sequences, FiniteSets, TLC

VARIABLES input, output, pc, x, ret

vars == <<input, output, pc, x, ret>>

(***************************************************************************)
(* Bounds of the model.                                                    *)
(***************************************************************************)
MaxVariants == 2    \* variants of an input enum
MaxFields == 2      \* fields of one variant
MaxVal == 1         \* payload values are 0..MaxVal

(***************************************************************************)
(* Characters and the snake_case conversion (ident_str.to_case(Snake)).    *)
(***************************************************************************)
Uppers == <<"A","B","C","D","E","F","G","H","I","J","K","L","M",
            "N","O","P","Q","R","S","T","U","V","W","X","Y","Z">>
Lowers == <<"a","b","c","d","e","f","g","h","i","j","k","l","m",
            "n","o","p","q","r","s","t","u","v","w","x","y","z">>
Digits == {"0","1","2","3","4","5","6","7","8","9"}

IsUpper(c) == \E i \in DOMAIN Uppers : Uppers[i] = c
IsLower(c) == \E i \in DOMAIN Lowers : Lowers[i] = c
IsDigit(c) == c \in Digits
IsDelim(c) == c \in {"_", "-", " "}
ToLower(c) == IF IsUpper(c) THEN Lowers[CHOOSE i \in DOMAIN Uppers : Uppers[i] = c] ELSE c

\* A word boundary between s[i] and s[i+1]: lower|Upper, the acronym rule
\* (Upper|Upper lower) and the four letter/digit boundaries.
Boundary(s, i) ==
    LET a == s[i]
        b == s[i + 1]
    IN  \/ IsLower(a) /\ IsUpper(b)
        \/ IsUpper(a) /\ IsUpper(b) /\ i + 2 <= Len(s) /\ IsLower(s[i + 2])
        \/ IsDigit(a) /\ (IsUpper(b) \/ IsLower(b))
        \/ (IsUpper(a) \/ IsLower(a)) /\ IsDigit(b)

\* The words of s from position i on; cur is the word in progress.  Empty
\* words (leading, trailing or doubled delimiters) are dropped.
RECURSIVE SplitWords(_, _, _)
SplitWords(s, i, cur) ==
    LET done == IF cur = <<>> THEN <<>> ELSE <<cur>>
    IN  IF i > Len(s) THEN done
        ELSE IF IsDelim(s[i]) THEN done \o SplitWords(s, i + 1, <<>>)
        ELSE IF cur # <<>> /\ Boundary(s, i - 1)
             THEN <<cur>> \o SplitWords(s, i + 1, <<s[i]>>)
        ELSE SplitWords(s, i + 1, Append(cur, s[i]))

RECURSIVE JoinWords(_)
JoinWords(ws) ==
    IF ws = <<>> THEN <<>>
    ELSE IF Len(ws) = 1 THEN ws[1]
    ELSE ws[1] \o <<"_">> \o JoinWords(Tail(ws))

SnakeCase(s) ==
    LET ws == SplitWords(s, 1, <<>>)
    IN  JoinWords([k \in DOMAIN ws |-> [j \in DOMAIN ws[k] |-> ToLower(ws[k][j])]])

(***************************************************************************)
(* The input: a parsed item (syn::DeriveInput).                            *)
(***************************************************************************)
U32 == <<"u","3","2">>
Bool == <<"b","o","o","l">>
Types == {U32, Bool}

\* Variant identifiers the inputs are drawn from, in a fixed order.
IdentPool == << <<"X">>, <<"X","M","u","t">>, <<"X","_","M","u","t">>,
                <<"M","u","t","X","2">> >>
Idents == {IdentPool[i] : i \in DOMAIN IdentPool}

MyEnum == <<"M","y","E","n","u","m">>

\* syn::Fields: Unit, Named { .. } and Unnamed ( .. ), the latter two with the
\* types of their fields in order.  Only the first type varies.
FieldTys(n) == {[k \in 1..n |-> IF k = 1 THEN t ELSE U32] : t \in Types}
FieldsSet ==
    {[kind |-> "Unit", tys |-> <<>>]}
    \cup {[kind |-> "Named", tys |-> [k \in 1..n |-> U32]] : n \in 0..MaxFields}
    \cup UNION {{[kind |-> "Unnamed", tys |-> tys] : tys \in FieldTys(n)} : n \in 0..MaxFields}

VariantDecls == [ident : Idents, fields : FieldsSet]

\* Variant lists of an enum: identifiers are pairwise distinct (rustc rejects
\* an enum that declares one name twice before any derive runs).
VariantLists ==
    UNION {{vs \in [1..n -> VariantDecls] :
                \A i, j \in 1..n : i # j => vs[i].ident # vs[j].ident} : n \in 0..MaxVariants}

\* Variant lists whose i-th identifier is the i-th of the pool.
PoolOrderLists ==
    {vs \in VariantLists : \A i \in DOMAIN vs : vs[i].ident = IdentPool[i]}

Visibilities == {"pub", ""}

EnumInputs(lists) ==
    [ident : {MyEnum}, vis : Visibilities, generics : {""},
     data : {[kind |-> "Enum", variants |-> vs] : vs \in lists}]
NonEnumInputs ==
    [ident : {MyEnum}, vis : Visibilities, generics : {""},
     data : {[kind |-> k, variants |-> <<>>] : k \in {"Struct", "Union"}}]

(***************************************************************************)
(* Tokens.  A pattern is a path and a form: Self::V (Path), Self::V { .. } *)
(* (Struct), Self::V(p1, .., pn) (Tuple, elems the sub-patterns) or _      *)
(* (Wild).  An expression is a path (Kind::V), Some(v) or None.            *)
(***************************************************************************)
SelfSeg == <<"S","e","l","f">>
KindSuffix == <<"K","i","n","d">>
KindFnName == <<"k","i","n","d">>
IsPrefix == <<"i","s","_">>
AsPrefix == <<"a","s","_">>
MutSuffix == <<"_","m","u","t">>
IntoPrefix == <<"i","n","t","o","_">>

Some(v) == <<v>>
None == <<>>

Pat(path, form, elems) == [path |-> path, form |-> form, elems |-> elems]
WildPat == Pat(<<>>, "Wild", <<>>)
Arm(pat, expr) == [pat |-> pat, expr |-> expr]
PathExpr(path) == [form |-> "Path", path |-> path]
SomeV == [form |-> "Some", path |-> << <<"v">> >>]
NoneExpr == [form |-> "None", path |-> <<>>]
TrueExpr == [form |-> "true", path |-> <<>>]
FalseExpr == [form |-> "false", path |-> <<>>]
Match(scrutinee, arms) == [scrutinee |-> scrutinee, arms |-> arms]
RetTy(wrap, ref, ty) == [wrap |-> wrap, ref |-> ref, ty |-> ty]
Fn(v, name, receiver, rty, body) ==
    [vis |-> v, name |-> name, receiver |-> receiver, ret |-> rty, body |-> body]

(***************************************************************************)
(* nice_enum_impl, pass 1: one Variant descriptor per input variant.       *)
(***************************************************************************)
kind_ident_name(inp) == inp.ident \o KindSuffix

kind_ident(inp) == kind_ident_name(inp)

\* quote! { Self::#ident }
source_ident_path(ident) == <<SelfSeg, ident>>

\* match self { Self::V(v) => Some(v), _ => None }
AccessorBody(ident) ==
    Match("self", <<Arm(Pat(source_ident_path(ident), "Tuple", <<"v">>), SomeV),
                    Arm(WildPat, NoneExpr)>>)

\* Mutant: the arms in the other order, so that _ => None decides first.
as_method_wild_first(v, ident, ident_snake_case, inner_ty) ==
    Fn(v, AsPrefix \o ident_snake_case, "&self", RetTy("Option", "&", inner_ty),
       Match("self", <<Arm(WildPat, NoneExpr),
                       Arm(Pat(source_ident_path(ident), "Tuple", <<"v">>), SomeV)>>))

as_method(v, ident, ident_snake_case, inner_ty) ==
    Fn(v, AsPrefix \o ident_snake_case, "&self",
       RetTy("Option", "&", inner_ty), AccessorBody(ident))

\* Mutant: the accessor hands out the whole value, Some(self), not the field.
as_mut_method_whole(v, ident, ident_snake_case, inner_ty) ==
    Fn(v, AsPrefix \o ident_snake_case \o MutSuffix, "&mut self",
       RetTy("Option", "&mut", inner_ty),
       Match("self", <<Arm(Pat(source_ident_path(ident), "Tuple", <<"v">>),
                           [form |-> "Some", path |-> << <<"s","e","l","f">> >>]),
                       Arm(WildPat, NoneExpr)>>))

as_mut_method(v, ident, ident_snake_case, inner_ty) ==
    Fn(v, AsPrefix \o ident_snake_case \o MutSuffix, "&mut self",
       RetTy("Option", "&mut", inner_ty), AccessorBody(ident))

\* Mutant: the consuming accessor borrows its receiver.
into_method_borrowing(v, ident, ident_snake_case, inner_ty) ==
    Fn(v, IntoPrefix \o ident_snake_case, "&self",
       RetTy("Option", "", inner_ty), AccessorBody(ident))

into_method(v, ident, ident_snake_case, inner_ty) ==
    Fn(v, IntoPrefix \o ident_snake_case, "self",
       RetTy("Option", "", inner_ty), AccessorBody(ident))

\* Mutant: any non-empty tuple variant gets the accessors.
HasSomeField(fields) == Len(fields.tys) >= 1

\* Fields::Unnamed with exactly one field gets the three accessors.
HasSingleField(fields) == Len(fields.tys) = 1

\* match &variant.fields { .. }: <<source_arm, as_method, as_mut_method, into_method>>
FieldsMatch(v, ident, ident_snake_case, fields) ==
    CASE fields.kind = "Named" ->
            <<Pat(source_ident_path(ident), "Struct", <<"..">>), None, None, None>>
      [] fields.kind = "Unnamed" ->
            IF HasSingleField(fields)
            THEN LET inner_ty == fields.tys[1]
                 IN  <<Pat(source_ident_path(ident), "Tuple", <<"_">>),
                       Some(as_method(v, ident, ident_snake_case, inner_ty)),
                       Some(as_mut_method(v, ident, ident_snake_case, inner_ty)),
                       Some(into_method(v, ident, ident_snake_case, inner_ty))>>
            ELSE <<Pat(source_ident_path(ident), "Tuple", <<"_">>), None, None, None>>
      [] fields.kind = "Unit" ->
            <<Pat(source_ident_path(ident), "Path", <<>>), None, None, None>>

\* The closure mapped over input_variants.
Variant(inp, variant) ==
    LET ident == variant.ident
        ident_snake_case == SnakeCase(ident)
        m == FieldsMatch(inp.vis, ident, ident_snake_case, variant.fields)
    IN  [ident |-> ident,
         qualified |-> <<kind_ident(inp), ident>>,
         as_method |-> m[2],
         as_mut_method |-> m[3],
         into_method |-> m[4],
         is_variant_method |-> IsPrefix \o ident_snake_case,
         source_arm |-> m[1]]

variants(inp) ==
    [i \in DOMAIN inp.data.variants |-> Variant(inp, inp.data.variants[i])]

(***************************************************************************)
(* Pass 2: the kind enum, from the descriptors vs.                         *)
(***************************************************************************)
\* Mutant: the cases are emitted last variant first.
enum_kind_body_reversed(vs) ==
    [i \in DOMAIN vs |-> [ident |-> vs[Len(vs) + 1 - i].ident, fields |-> "Unit"]]

enum_kind_body(vs) ==
    [i \in DOMAIN vs |-> [ident |-> vs[i].ident, fields |-> "Unit"]]

enum_kind_impl(inp, vs) ==
    [derives |-> <<"Debug", "Clone", "Copy", "PartialEq", "Eq", "PartialOrd", "Ord", "Hash">>,
     vis |-> inp.vis,
     ident |-> kind_ident(inp),
     body |-> enum_kind_body(vs)]

(***************************************************************************)
(* Pass 3: the methods.                                                    *)
(***************************************************************************)
source_kind_body(vs) ==
    [i \in DOMAIN vs |-> Arm(vs[i].source_arm, PathExpr(vs[i].qualified))]

source_kind_fn(inp, vs) ==
    Fn(inp.vis, KindFnName, "&self", RetTy("", "", kind_ident(inp)),
       Match("self", source_kind_body(vs)))

\* matches!(self.kind(), #qualified)
IsVariantFn(inp, variant) ==
    Fn(inp.vis, variant.is_variant_method, "&self", RetTy("", "", Bool),
       Match("self.kind()", <<Arm(Pat(variant.qualified, "Path", <<>>), TrueExpr),
                              Arm(WildPat, FalseExpr)>>))

source_is_variant_fn(inp, vs) ==
    [i \in DOMAIN vs |-> IsVariantFn(inp, vs[i])]

\* iter().filter_map(f).collect() over Options held as sequences of length 0 or 1
RECURSIVE Flatten(_)
Flatten(opts) == IF opts = <<>> THEN <<>> ELSE Head(opts) \o Flatten(Tail(opts))

source_as_variant_fn(vs) == Flatten([i \in DOMAIN vs |-> vs[i].as_method])

source_as_mut_variant_fn(vs) == Flatten([i \in DOMAIN vs |-> vs[i].as_mut_method])

source_into_variant_fn(vs) == Flatten([i \in DOMAIN vs |-> vs[i].into_method])

\* Mutant: the mutable accessors are emitted before the borrowing ones.
ImplItemsMutFirst(inp, vs) ==
    <<source_kind_fn(inp, vs)>> \o source_is_variant_fn(inp, vs)
        \o source_as_mut_variant_fn(vs) \o source_as_variant_fn(vs)
        \o source_into_variant_fn(vs)

\* The body of the impl block of the final quote!.
ImplItems(inp, vs) ==
    <<source_kind_fn(inp, vs)>> \o source_is_variant_fn(inp, vs)
        \o source_as_variant_fn(vs) \o source_as_mut_variant_fn(vs)
        \o source_into_variant_fn(vs)

\* The token stream returned for an enum: the kind enum, then the impl block.
Tokens(inp) ==
    LET vs == variants(inp)
    IN  <<enum_kind_impl(inp, vs),
          [generics |-> inp.generics, self_ty |-> inp.ident, items |-> ImplItems(inp, vs)]>>

KindEnum(out) == out[1]
Impl(out) == out[2]

\* Mutant: only a struct is refused.
PanicsOnStruct(inp) == inp.data.kind = "Struct"

\* match input.data { Data::Enum(..) => variants, _ => panic!(..) }
Panics(inp) == inp.data.kind # "Enum"

NoTokens == <<>>
NoInstance == [ty |-> <<>>, variant |-> <<>>, form |-> "None", payload |-> <<>>]
NoRet == [op |-> "none", of |-> 0, val |-> <<>>]

(***************************************************************************)
(* The derive as a state machine: the item arrives, nice_enum_impl runs.   *)
(***************************************************************************)
InitWith(inputs) ==
    /\ input \in inputs
    /\ output = NoTokens
    /\ pc = "input"
    /\ x = NoInstance
    /\ ret = NoRet

Init == InitWith(EnumInputs(VariantLists) \cup NonEnumInputs)

nice_enum_impl ==
    /\ pc = "input"
    /\ IF Panics(input)
       THEN /\ pc' = "panicked"
            /\ output' = NoTokens
       ELSE /\ pc' = "expanded"
            /\ output' = Tokens(input)
    /\ UNCHANGED <<input, x, ret>>

Next == nice_enum_impl

Spec == Init /\ [][Next]_vars

(***************************************************************************)
(* The meaning of the emitted code.  A value is a variant of a type with   *)
(* its payload; a pattern matches a value as rustc decides it: Self::V     *)
(* matches the unit variant V, Self::V { .. } any form of V, and           *)
(* Self::V(p1, .., pn) a tuple variant V with exactly n fields (a tuple    *)
(* pattern of another length is rejected, error E0023, and matches no      *)
(* value).                                                                 *)
(***************************************************************************)
Values == 0..MaxVal

\* Payloads of a variant with n fields: every field holds the same value.
Payloads(n) == {[k \in 1..n |-> v] : v \in Values}

Val(ty, variant, form, payload) ==
    [ty |-> ty, variant |-> variant, form |-> form, payload |-> payload]
Undefined == Val(<<>>, <<>>, "Undefined", <<>>)
Moved == Val(<<>>, <<>>, "Moved", <<>>)
TrueVal == Val(Bool, <<"t","r","u","e">>, "Lit", <<>>)
FalseVal == Val(Bool, <<"f","a","l","s","e">>, "Lit", <<>>)

Instance(inp, i, p) ==
    Val(inp.ident, inp.data.variants[i].ident, inp.data.variants[i].fields.kind, p)

Instances(inp) ==
    UNION {{Instance(inp, i, p) : p \in Payloads(Len(inp.data.variants[i].fields.tys))} :
              i \in DOMAIN inp.data.variants}

\* Self names the type of the impl block.
Resolve(out, seg) == IF seg = SelfSeg THEN Impl(out).self_ty ELSE seg

PatMatches(out, pat, val) ==
    IF pat.form = "Wild" THEN TRUE
    ELSE /\ Resolve(out, pat.path[1]) = val.ty
         /\ pat.path[2] = val.variant
         /\ CASE pat.form = "Struct" -> TRUE
              [] pat.form = "Tuple" ->
                    val.form = "Unnamed" /\ Len(pat.elems) = Len(val.payload)
              [] pat.form = "Path" -> val.form = "Unit"

\* The value of an arm's expression.  Matching through a reference binds v
\* by reference: Some(v) is then a reference to the field of the matched
\* value that v stands for (place 0 is the whole value).
EvalExpr(out, receiver, arm, val) ==
    CASE arm.expr.form = "Path" ->
            IF /\ arm.expr.path[1] = KindEnum(out).ident
               /\ \E k \in DOMAIN KindEnum(out).body :
                      KindEnum(out).body[k].ident = arm.expr.path[2]
            THEN Val(arm.expr.path[1], arm.expr.path[2], "Unit", <<>>)
            ELSE Undefined
      [] arm.expr.form = "Some" ->
            LET place == IF arm.expr.path[1] = <<"v">>
                         THEN CHOOSE k \in DOMAIN arm.pat.elems : arm.pat.elems[k] = "v"
                         ELSE 0
            IN  IF receiver = "self"
                THEN [form |-> "Some", ref |-> "", place |-> 0, value |-> val.payload[place]]
                ELSE [form |-> "Some", ref |-> IF receiver = "&self" THEN "&" ELSE "&mut",
                      place |-> place, value |-> 0]
      [] arm.expr.form = "None" -> [form |-> "None", ref |-> "", place |-> 0, value |-> 0]
      [] arm.expr.form = "true" -> TrueVal
      [] arm.expr.form = "false" -> FalseVal

\* match val { arms }: the first arm whose pattern matches decides.
EvalMatch(out, receiver, arms, val) ==
    LET hits == {k \in DOMAIN arms : PatMatches(out, arms[k].pat, val)}
    IN  IF hits = {} THEN Undefined
        ELSE EvalExpr(out, receiver, arms[CHOOSE k \in hits : \A j \in hits : k <= j], val)

\* self.kind() inside a method body names the method called kind.
KindFn(out) == Impl(out).items[CHOOSE k \in DOMAIN Impl(out).items :
                                  Impl(out).items[k].name = KindFnName]

\* Calling a generated method on val.
Call(out, item, val) ==
    IF item.body.scrutinee = "self"
    THEN EvalMatch(out, item.receiver, item.body.arms, val)
    ELSE LET k == EvalMatch(out, KindFn(out).receiver, KindFn(out).body.arms, val)
         IN  IF k = Undefined THEN Undefined
             ELSE EvalMatch(out, item.receiver, item.body.arms, k)

\* A call x.is_v(), x.as_v(), .. is resolved to the method emitted for v: the
\* v-th predicate, and the accessor of v among those of the single-field
\* variants before it.
AccessorVariants(inp) ==
    {i \in DOMAIN inp.data.variants :
        /\ inp.data.variants[i].fields.kind = "Unnamed"
        /\ Len(inp.data.variants[i].fields.tys) = 1}
AccRank(inp, i) == Cardinality({j \in AccessorVariants(inp) : j <= i})
NVariants(inp) == Len(inp.data.variants)
NAccessors(inp) == Cardinality(AccessorVariants(inp))

IsFn(inp, out, i) == Impl(out).items[1 + i]
AsFn(inp, out, i) == Impl(out).items[1 + NVariants(inp) + AccRank(inp, i)]
AsMutFn(inp, out, i) ==
    Impl(out).items[1 + NVariants(inp) + NAccessors(inp) + AccRank(inp, i)]
IntoFn(inp, out, i) ==
    Impl(out).items[1 + NVariants(inp) + 2 * NAccessors(inp) + AccRank(inp, i)]

\* What a call leaves of the receiver: a method taking self consumes it.
After(item, val) == IF item.receiver = "self" THEN Moved ELSE val

Live == x.form \notin {"None", "Moved"}

Ret(op, of, val) == [op |-> op, of |-> of, val |-> val]

(***************************************************************************)
(* A program using the generated code: it builds an instance of the source *)
(* enum and calls the generated methods on it.                             *)
(***************************************************************************)
Construct(i, p) ==
    /\ pc = "expanded"
    /\ i \in DOMAIN input.data.variants
    /\ p \in Payloads(Len(input.data.variants[i].fields.tys))
    /\ x' = Instance(input, i, p)
    /\ ret' = NoRet
    /\ UNCHANGED <<input, output, pc>>

CallKind ==
    /\ pc = "expanded" /\ Live
    /\ ret' = Ret("kind", 0, Call(output, KindFn(output), x))
    /\ x' = After(KindFn(output), x)
    /\ UNCHANGED <<input, output, pc>>

CallIs(i) ==
    /\ pc = "expanded" /\ Live
    /\ i \in DOMAIN input.data.variants
    /\ ret' = Ret("is", i, Call(output, IsFn(input, output, i), x))
    /\ x' = After(IsFn(input, output, i), x)
    /\ UNCHANGED <<input, output, pc>>

CallAs(i) ==
    /\ pc = "expanded" /\ Live
    /\ i \in AccessorVariants(input)
    /\ ret' = Ret("as", i, Call(output, AsFn(input, output, i), x))
    /\ x' = After(AsFn(input, output, i), x)
    /\ UNCHANGED <<input, output, pc>>

CallAsMut(i) ==
    /\ pc = "expanded" /\ Live
    /\ i \in AccessorVariants(input)
    /\ ret' = Ret("as_mut", i, Call(output, AsMutFn(input, output, i), x))
    /\ x' = After(AsMutFn(input, output, i), x)
    /\ UNCHANGED <<input, output, pc>>

\* A write through the exclusive reference as_v_mut() returned: to the field
\* it refers to, or to the whole value when it refers to that.
WriteThrough(w, whole) ==
    /\ pc = "expanded" /\ Live
    /\ ret.op \in {"as_mut", "write"} /\ ret.val.form = "Some" /\ ret.val.ref = "&mut"
    /\ w \in Values
    /\ whole \in Instances(input)
    /\ x' = IF ret.val.place = 0 THEN whole ELSE [x EXCEPT !.payload[ret.val.place] = w]
    /\ ret' = [ret EXCEPT !.op = "write"]
    /\ UNCHANGED <<input, output, pc>>

CallInto(i) ==
    /\ pc = "expanded" /\ Live
    /\ i \in AccessorVariants(input)
    /\ ret' = Ret("into", i, Call(output, IntoFn(input, output, i), x))
    /\ x' = After(IntoFn(input, output, i), x)
    /\ UNCHANGED <<input, output, pc>>

RunInputs == {inp \in EnumInputs(PoolOrderLists) : inp.vis = "pub"}

InitRun == InitWith(RunInputs)

NextRun ==
    \/ nice_enum_impl
    \/ \E i \in 1..MaxVariants : \E p \in UNION {Payloads(n) : n \in 0..MaxFields} :
            Construct(i, p)
    \/ CallKind
    \/ \E i \in 1..MaxVariants : CallIs(i)
    \/ \E i \in 1..MaxVariants : CallAs(i)
    \/ \E i \in 1..MaxVariants : CallAsMut(i)
    \/ \E w \in Values : \E whole \in Instances(input) : WriteThrough(w, whole)
    \/ \E i \in 1..MaxVariants : CallInto(i)

SpecRun == InitRun /\ [][NextRun]_vars

(***************************************************************************)
(* Properties.                                                             *)
(***************************************************************************)
Expanded == pc = "expanded"
Vs == input.data.variants
Items == Impl(output).items
IsSingle(i) == Vs[i].fields.kind = "Unnamed" /\ Len(Vs[i].fields.tys) = 1

\* The items of the impl block that are predicates on the tag V, and the
\* accessors of V taking the receiver recv.
PredicatesOf(V) ==
    {k \in DOMAIN Items : /\ Items[k].body.scrutinee = "self.kind()"
                          /\ Items[k].body.arms[1].pat.path[2] = V}
AccessorsOf(V, recv) ==
    {k \in DOMAIN Items : /\ Items[k].ret.wrap = "Option"
                          /\ Items[k].receiver = recv
                          /\ Items[k].body.arms[1].pat.path = <<SelfSeg, V>>}

\* The snake_case form of each identifier of the pool, written out.
SnakeName(ident) ==
    CASE ident = <<"X">> -> <<"x">>
      [] ident = <<"X","M","u","t">> -> <<"x","_","m","u","t">>
      [] ident = <<"X","_","M","u","t">> -> <<"x","_","m","u","t">>
      [] ident = <<"M","u","t","X","2">> -> <<"m","u","t","_","x","_","2">>

\* C1: the kind enum has one payload-free case per input variant, in
\* declaration order, and the arms of kind() are in that same order, the
\* i-th arm matching the i-th variant and yielding the i-th case.
OrderPreserved ==
    Expanded =>
        LET cases == KindEnum(output).body
            arms == KindFn(output).body.arms
        IN  /\ Len(cases) = Len(Vs)
            /\ Len(arms) = Len(Vs)
            /\ \A i \in DOMAIN Vs :
                  /\ cases[i].ident = Vs[i].ident
                  /\ cases[i].fields = "Unit"
                  /\ arms[i].pat.path = <<SelfSeg, Vs[i].ident>>
                  /\ arms[i].expr = PathExpr(<<KindEnum(output).ident, Vs[i].ident>>)

OrderPreservedWitness ==
    /\ Expanded
    /\ Len(Vs) >= 2
    /\ Vs[1].fields.kind = "Unnamed"
    /\ Vs[2].fields.kind = "Named"
    /\ KindEnum(output).body[2].ident = Vs[2].ident

\* C2: for every instance x exactly one arm of kind() matches x, and kind()
\* returns the case of the variant x was built as.
KindExhaustive ==
    (Expanded /\ Live) =>
        LET arms == KindFn(output).body.arms
        IN  /\ Cardinality({k \in DOMAIN arms : PatMatches(output, arms[k].pat, x)}) = 1
            /\ Call(output, KindFn(output), x)
                   = Val(KindEnum(output).ident, x.variant, "Unit", <<>>)

\* C3: x.is_v() is true exactly when x.kind() is the case of v, and exactly
\* one predicate is true of any instance.
PredicateTagEquivalence ==
    (Expanded /\ Live) =>
        LET IsV(i) == Call(output, IsFn(input, output, i), x) = TrueVal
            KindIs(i) == Call(output, KindFn(output), x)
                            = Val(KindEnum(output).ident, KindEnum(output).body[i].ident,
                                  "Unit", <<>>)
        IN  /\ \A i \in DOMAIN Vs : IsV(i) <=> KindIs(i)
            /\ Cardinality({i \in DOMAIN Vs : IsV(i)}) = 1

\* C4: a call of as_v() leaves x as it was; it returns Some exactly when
\* x.is_v() is true (that is, when x was built as v), and then the reference
\* is a shared reference to the one field of x.
AccessorSound ==
    [][(ret'.op = "as") =>
          /\ x' = x
          /\ (ret'.val.form = "Some")
                <=> (Call(output, IsFn(input, output, ret'.of), x) = TrueVal)
          /\ (ret'.val.form = "Some") <=> (x.variant = Vs[ret'.of].ident)
          /\ ret'.val.form \in {"Some", "None"}
          /\ (ret'.val.form = "Some") =>
                /\ ret'.val.ref = "&"
                /\ Len(x.payload) = 1
                /\ ret'.val.place = 1]_vars

AccessorSoundWitness ==
    /\ ret.op = "as"
    /\ ret.val.form = "Some"
    /\ x.payload[ret.val.place] = 1

\* C5: a write through the reference as_v_mut() returned changes the payload
\* of x and nothing else: x is the same variant, kind() returns what it did;
\* as_v_mut() itself leaves x alone and returns None exactly when x is
\* another variant.
MutationIsolated ==
    [][/\ (ret'.op = "write") =>
              /\ x'.ty = x.ty /\ x'.variant = x.variant /\ x'.form = x.form
              /\ Len(x'.payload) = Len(x.payload)
              /\ Call(output, KindFn(output), x') = Call(output, KindFn(output), x)
       /\ (ret'.op = "as_mut") =>
              /\ x' = x
              /\ ret'.val.form \in {"Some", "None"}
              /\ (ret'.val.form = "None") <=> (x.variant # Vs[ret'.of].ident)]_vars

MutationIsolatedWitness ==
    /\ ret.op = "write"
    /\ x.payload = <<1>>
    /\ Call(output, KindFn(output), x) # Undefined

\* C6: into_v() consumes x; it returns Some(p), p owned, when x was built as
\* v(p), and None when x was built as another variant.  Once x is consumed
\* the only step left is to build a new value: no method runs on a moved x.
ConsumingRoundTrip ==
    [][/\ (ret'.op = "into" /\ Live) =>
              /\ x' = Moved
              /\ IF x.variant = Vs[ret'.of].ident
                 THEN ret'.val = [form |-> "Some", ref |-> "", place |-> 0,
                                  value |-> x.payload[1]]
                 ELSE ret'.val.form = "None"
       /\ (x = Moved) => (x' # Moved /\ ret' = NoRet)]_vars

ConsumingRoundTripWitness ==
    /\ ret.op = "into"
    /\ ret.val.form = "Some"
    /\ ret.val.value = 1
    /\ x = Moved

\* C7: each variant V gets exactly one predicate, named is_<snake_case(V)>;
\* it gets the accessors as_<snake>, as_<snake>_mut and into_<snake>, one
\* each and typed with the field's type, exactly when it is a tuple variant
\* with one field, and none of them otherwise.
MethodSetPerVariant ==
    Expanded =>
        \A i \in DOMAIN Vs :
            LET V == Vs[i].ident
                snake == SnakeName(V)
                n == IF IsSingle(i) THEN 1 ELSE 0
            IN  /\ Cardinality(PredicatesOf(V)) = 1
                /\ \A k \in PredicatesOf(V) : Items[k].name = IsPrefix \o snake
                /\ Cardinality(AccessorsOf(V, "&self")) = n
                /\ Cardinality(AccessorsOf(V, "&mut self")) = n
                /\ Cardinality(AccessorsOf(V, "self")) = n
                /\ \A k \in AccessorsOf(V, "&self") :
                      /\ Items[k].name = AsPrefix \o snake
                      /\ Items[k].ret = RetTy("Option", "&", Vs[i].fields.tys[1])
                /\ \A k \in AccessorsOf(V, "&mut self") :
                      /\ Items[k].name = AsPrefix \o snake \o MutSuffix
                      /\ Items[k].ret = RetTy("Option", "&mut", Vs[i].fields.tys[1])
                /\ \A k \in AccessorsOf(V, "self") :
                      /\ Items[k].name = IntoPrefix \o snake
                      /\ Items[k].ret = RetTy("Option", "", Vs[i].fields.tys[1])

MethodSetPerVariantWitness ==
    /\ Expanded
    /\ Len(Vs) >= 2
    /\ Vs[1].fields.kind = "Named" /\ Len(Vs[1].fields.tys) = 1
    /\ IsSingle(2) /\ Vs[2].fields.tys[1] = Bool
    /\ Vs[2].ident = <<"M","u","t","X","2">>
    /\ Cardinality(AccessorsOf(Vs[2].ident, "self")) = 1

EmissionOrder ==
    Expanded =>
        LET n == Len(Vs)
            acc == {i \in DOMAIN Vs : IsSingle(i)}
            a == Cardinality(acc)
            rank(i) == Cardinality({j \in acc : j <= i})
            IsAccessor(k, i, recv) ==
                /\ Items[k].receiver = recv
                /\ Items[k].ret.wrap = "Option"
                /\ Items[k].body.arms[1].pat.path = <<SelfSeg, Vs[i].ident>>
        IN  /\ Len(Items) = 1 + n + 3 * a
            /\ Items[1].name = KindFnName
            /\ \A i \in DOMAIN Vs :
                  /\ Items[1 + i].body.scrutinee = "self.kind()"
                  /\ Items[1 + i].body.arms[1].pat.path[2] = Vs[i].ident
            /\ \A i \in acc :
                  /\ IsAccessor(1 + n + rank(i), i, "&self")
                  /\ IsAccessor(1 + n + a + rank(i), i, "&mut self")
                  /\ IsAccessor(1 + n + 2 * a + rank(i), i, "self")

EmissionOrderWitness ==
    /\ Expanded
    /\ Len(Vs) >= 2
    /\ IsSingle(1) /\ IsSingle(2)
    /\ Len(Items) = 9

\* C10: the names of the methods of the impl block are pairwise distinct.
MethodNamesDistinct ==
    Expanded =>
        \A j, k \in DOMAIN Items : j # k => Items[j].name # Items[k].name

====
